---------------------------- MODULE Spec2Model ----------------------------
(***************************************************************************)
(* A model of the mls_api data layer (mls_api/models.py) and of its South  *)
(* migration 0008 (Substitution.out_player / in_player retargeted from     *)
(* Player to GamePlayer).                                                   *)
(*                                                                         *)
(* The state is the content of the relational store, one variable per      *)
(* table, a function from primary keys to rows; a row that does not exist  *)
(* is NoRow.  Columns that no operation of the models reads (number,       *)
(* position, stat_link, the counters of StatSet other than fouls, ...) are *)
(* left out of the rows.  The derived properties of the models             *)
(* (Game.home_score, Game.away_score, Formation.formation_str) and the     *)
(* default listings (Meta.ordering) are operators over that state.         *)
(* Strings that are only compared (names, slugs) are represented by their  *)
(* collation rank, a natural number; strings that are built (str(),        *)
(* '-'.join) are sequences of one-character strings.                       *)
(***************************************************************************)
EXTENDS Integers, Sequences, FiniteSets, TLC

VARIABLES
    now,              \* the clock read by auto_now / auto_now_add
    result,           \* outcome of the last store operation: "ok" or "IntegrityError"
    teams,            \* mls_api_team
    competitions,     \* mls_api_competition
    players,          \* mls_api_player
    games,            \* mls_api_game
    gameplayers,      \* mls_api_gameplayer
    goals,            \* mls_api_goal
    statsets,         \* mls_api_statset
    formationlines,   \* mls_api_formationline (lines of one Formation)
    formationplayers, \* mls_api_formationplayer, as the number of rows of each line
    substitutions,    \* mls_api_substitution
    sub_schema,       \* the columns of mls_api_substitution and what each targets
    migrated,         \* whether migration 0008 is applied (South's migration history)
    fk_enforced,      \* whether the database backend checks foreign keys
    nulls_largest,    \* whether the backend sorts NULL above every value
    meant,            \* history: the Player each Substitution row denoted when written
    roundtrip         \* history: 0008 was applied forwards and then backwards

entityVars == <<teams, competitions, players>>
scoreVars == <<games, gameplayers, goals>>
formationVars == <<formationlines, formationplayers>>
migrationVars == <<substitutions, sub_schema, migrated, fk_enforced, meant, roundtrip>>
vars == <<now, result, entityVars, scoreVars, statsets, formationVars, migrationVars,
          nulls_largest>>

\* A row that does not exist, and the NULL of a nullable column.
NoRow == <<>>

NULL == -1

(***************************************************************************)
(* Bounds of the model.                                                    *)
(***************************************************************************)
MaxGoals == 2
MaxClock == 2     \* the last instant of the clock
MaxFormationPlayers == 13   \* FormationPlayer rows stored at a time
MaxSubstitutions == 1       \* Substitution rows stored at a time
MaxStatSets == 3            \* StatSet rows stored at a time

\* Primary keys (AutoField id) of the rows of each table.
TeamIds == {1, 2, 3}
PlayerIds == {1, 2, 3}
GameIds == {1, 2}
GamePlayerIds == {1, 2, 3, 4}
GoalIds == 1..MaxGoals

CompetitionIds == {1, 2}
FormationIds == {1, 2}
LineIds == {1, 2, 3, 4, 5}
SubstitutionIds == 1..MaxSubstitutions
StatSetIds == 1..MaxStatSets

\* CharField and SlugField values, by collation rank.
Names == {1, 2}
Slugs == {1, 2, 3}

Rows(table) == {i \in DOMAIN table : table[i] # NoRow}

(***************************************************************************)
(* class BaseModel: created = DateTimeField(auto_now_add=True),            *)
(* modified = DateTimeField(auto_now=True).  DateTimeField.pre_save sets   *)
(* the field to the clock when auto_now, or when auto_now_add and the save *)
(* is an insert; otherwise the value of the loaded instance is written     *)
(* back.  Both options make the field non-editable.                        *)
(***************************************************************************)
AutoNowAdd(add, current) == IF add THEN now ELSE current

AutoNow(add, current) == now

\* A slip: created declared auto_now.
created_auto_now(add, current) == AutoNow(add, current)

created_pre_save(add, current) == AutoNowAdd(add, current)

modified_pre_save(add, current) == AutoNow(add, current)

\* The clock advances.
Tick ==
    /\ now < MaxClock
    /\ now' = now + 1
    /\ UNCHANGED <<result, entityVars, scoreVars, statsets, formationVars,
                   migrationVars, nulls_largest>>

(***************************************************************************)
(* Team and Competition: slug = SlugField(unique=True).  The store refuses *)
(* an INSERT or UPDATE that would give two rows of the table one slug.     *)
(***************************************************************************)
NotUnique == FALSE

TeamSlugUnique == TRUE

CompetitionSlugUnique == TRUE

UniqueViolation(table, i, slug) ==
    \E j \in Rows(table) : j # i /\ table[j].slug = slug

\* Team(id=i, name=.., slug=..).save()
SaveTeam(i, name, slug) ==
    LET add == teams[i] = NoRow
        row == [name     |-> name,
                slug     |-> slug,
                created  |-> created_pre_save(add, IF add THEN NULL ELSE teams[i].created),
                modified |-> modified_pre_save(add, IF add THEN NULL ELSE teams[i].modified)]
    IN  /\ IF TeamSlugUnique /\ UniqueViolation(teams, i, slug)
           THEN /\ result' = "IntegrityError"
                /\ UNCHANGED teams
           ELSE /\ result' = "ok"
                /\ teams' = [teams EXCEPT ![i] = row]
        /\ UNCHANGED <<now, competitions, players, scoreVars, statsets, formationVars,
                       migrationVars, nulls_largest>>

\* Competition(id=i, name=.., slug=..).save()
SaveCompetition(i, name, slug) ==
    LET add == competitions[i] = NoRow
        row == [name     |-> name,
                slug     |-> slug,
                created  |-> created_pre_save(add, IF add THEN NULL
                                                   ELSE competitions[i].created),
                modified |-> modified_pre_save(add, IF add THEN NULL
                                                    ELSE competitions[i].modified)]
    IN  /\ IF CompetitionSlugUnique /\ UniqueViolation(competitions, i, slug)
           THEN /\ result' = "IntegrityError"
                /\ UNCHANGED competitions
           ELSE /\ result' = "ok"
                /\ competitions' = [competitions EXCEPT ![i] = row]
        /\ UNCHANGED <<now, teams, players, scoreVars, statsets, formationVars,
                       migrationVars, nulls_largest>>

\* Player(id=i, first_name=.., last_name=.., team=..).save()
SavePlayer(i, first_name, last_name, team) ==
    LET add == players[i] = NoRow
        row == [first_name |-> first_name,
                last_name  |-> last_name,
                team       |-> team,
                created    |-> created_pre_save(add, IF add THEN NULL
                                                     ELSE players[i].created),
                modified   |-> modified_pre_save(add, IF add THEN NULL
                                                      ELSE players[i].modified)]
    IN  /\ teams[team] # NoRow
        /\ result' = "ok"
        /\ players' = [players EXCEPT ![i] = row]
        /\ UNCHANGED <<now, teams, competitions, scoreVars, statsets, formationVars,
                       migrationVars, nulls_largest>>

\* Game(id=i, home_team=.., away_team=.., start_time=..).save()
SaveGame(i, row) ==
    /\ teams[row.home_team] # NoRow /\ teams[row.away_team] # NoRow
    /\ result' = "ok"
    /\ games' = [games EXCEPT ![i] = row]
    /\ UNCHANGED <<now, entityVars, gameplayers, goals, statsets, formationVars,
                   migrationVars, nulls_largest>>

(***************************************************************************)
(* class Game: the class body binds names in source order, and a later     *)
(* binding of a name replaces an earlier one in the class namespace.  The  *)
(* model fields found in the final namespace become columns of the table.  *)
(***************************************************************************)
GameBody ==
    << [name |-> "home_team",            kind |-> "field"],
       [name |-> "away_team",            kind |-> "field"],
       [name |-> "start_time",           kind |-> "field"],
       [name |-> "home_score",           kind |-> "field"],
       [name |-> "away_score",           kind |-> "field"],
       [name |-> "competition",          kind |-> "field"],
       [name |-> "stat_link",            kind |-> "field"],
       [name |-> "players",              kind |-> "m2m"],
       [name |-> "__unicode__",          kind |-> "method"],
       [name |-> "get_absolute_url",     kind |-> "method"],
       [name |-> "_retrieve_goal_count", kind |-> "method"],
       [name |-> "home_score",           kind |-> "property"],
       [name |-> "away_score",           kind |-> "property"] >>

BodyNames(body) == {body[i].name : i \in DOMAIN body}

\* A slip: the first binding of a name is kept.
FirstBinding(body, n) ==
    body[CHOOSE i \in DOMAIN body :
            /\ body[i].name = n
            /\ \A j \in DOMAIN body : body[j].name = n => i <= j].kind

Binding(body, n) ==
    body[CHOOSE i \in DOMAIN body :
            /\ body[i].name = n
            /\ \A j \in DOMAIN body : body[j].name = n => j <= i].kind

Columns(body) == {n \in BodyNames(body) : Binding(body, n) = "field"}

GameColumns == Columns(GameBody)

\* The columns of mls_api_game whose values the model keeps.
GameModelled == GameColumns \cap
                {"home_team", "away_team", "start_time", "home_score", "away_score"}

StartTimes == {NULL, 1, 2}

GameColumnValues(c) ==
    CASE c = "home_team"  -> TeamIds
      [] c = "away_team"  -> TeamIds
      [] c = "start_time" -> StartTimes
      [] OTHER            -> {NULL} \cup (0..MaxGoals)

GameRows ==
    {r \in [GameModelled -> TeamIds \cup StartTimes \cup (0..MaxGoals)] :
        \A c \in GameModelled : r[c] \in GameColumnValues(c)}

\* The row of Game(home_team=.., away_team=.., start_time=..); a score cannot be
\* given, and a score column, where the table has one, is left NULL.
GameRow(home_team, away_team, start_time) ==
    [c \in GameModelled |-> CASE c = "home_team"  -> home_team
                              [] c = "away_team"  -> away_team
                              [] c = "start_time" -> start_time
                              [] OTHER            -> NULL]

(***************************************************************************)
(* Game._retrieve_goal_count, Game.home_score, Game.away_score             *)
(***************************************************************************)
goal_set(g) == {i \in Rows(goals) : goals[i].game = g}

\* A slip: the own goals of the team's own players are not excluded.
retrieve_goal_count_no_exclude(g, team) ==
    Cardinality({i \in goal_set(g) : goals[i].own_goal})
    + Cardinality({i \in goal_set(g) :
                      /\ gameplayers[goals[i].player].team = team
                      /\ ~goals[i].own_goal})

retrieve_goal_count(g, team) ==
    LET filtered  == {i \in goal_set(g) : goals[i].own_goal}
        own_goals == filtered \ {i \in filtered :
                                    gameplayers[goals[i].player].team = team}
        scored    == {i \in goal_set(g) :
                         /\ gameplayers[goals[i].player].team = team
                         /\ ~goals[i].own_goal}
    IN  Cardinality(own_goals) + Cardinality(scored)

home_score(g) ==
    IF Binding(GameBody, "home_score") = "property"
    THEN retrieve_goal_count(g, games[g].home_team)
    ELSE games[g].home_score

\* A slip: away_score counts for the home team.
away_score_home_team(g) == retrieve_goal_count(g, games[g].home_team)

away_score(g) ==
    IF Binding(GameBody, "away_score") = "property"
    THEN retrieve_goal_count(g, games[g].away_team)
    ELSE games[g].away_score

(***************************************************************************)
(* Goal: insert, update and delete.                                        *)
(***************************************************************************)
GoalRow(g, p, own) == [game |-> g, player |-> p, own_goal |-> own]

InsertGoal(i, g, p, own) ==
    /\ goals[i] = NoRow
    /\ games[g] # NoRow /\ gameplayers[p] # NoRow
    /\ goals' = [goals EXCEPT ![i] = GoalRow(g, p, own)]
    /\ result' = "ok"
    /\ UNCHANGED <<now, entityVars, games, gameplayers, statsets, formationVars,
                   migrationVars, nulls_largest>>

UpdateGoal(i, g, p, own) ==
    /\ goals[i] # NoRow
    /\ games[g] # NoRow /\ gameplayers[p] # NoRow
    /\ goals' = [goals EXCEPT ![i] = GoalRow(g, p, own)]
    /\ result' = "ok"
    /\ UNCHANGED <<now, entityVars, games, gameplayers, statsets, formationVars,
                   migrationVars, nulls_largest>>

DeleteGoal(i) ==
    /\ goals[i] # NoRow
    /\ goals' = [goals EXCEPT ![i] = NoRow]
    /\ result' = "ok"
    /\ UNCHANGED <<now, entityVars, games, gameplayers, statsets, formationVars,
                   migrationVars, nulls_largest>>

(***************************************************************************)
(* Default ordering (class Meta: ordering = (...)).  A query without an    *)
(* explicit order_by is ORDER BY the Meta fields, a leading '-' meaning    *)
(* descending; rows that compare equal come in any order, and where NULL   *)
(* sorts is the database backend's choice.                                 *)
(***************************************************************************)
Asc(f) == [field |-> f, desc |-> FALSE]

Desc(f) == [field |-> f, desc |-> TRUE]

TeamOrdering == <<Asc("name")>>

PlayerOrdering == <<Asc("last_name"), Asc("first_name")>>

FormationLineOrdering == <<Asc("sort_order")>>

\* A slip: ascending start_time.
GameOrderingAscending == <<Asc("start_time")>>

GameOrdering == <<Desc("start_time")>>

\* x sorts strictly before y in ascending order.
Less(x, y) ==
    IF x = NULL THEN y # NULL /\ ~nulls_largest
    ELSE IF y = NULL THEN nulls_largest
    ELSE x < y

RECURSIVE Precedes(_, _, _)
\* Row a may come before row b under ORDER BY ordering.
Precedes(ordering, a, b) ==
    IF ordering = <<>> THEN TRUE
    ELSE LET f == Head(ordering).field
         IN  IF a[f] = b[f] THEN Precedes(Tail(ordering), a, b)
             ELSE IF Head(ordering).desc THEN Less(b[f], a[f])
             ELSE Less(a[f], b[f])

Orderings(ids) ==
    {s \in [1..Cardinality(ids) -> ids] :
        \A j, k \in 1..Cardinality(ids) : s[j] = s[k] => j = k}

\* The results the store may give for SELECT .. WHERE id IN ids ORDER BY ordering.
OrderBy(table, ids, ordering) ==
    {s \in Orderings(ids) :
        \A k \in 1..(Len(s) - 1) : Precedes(ordering, table[s[k]], table[s[k + 1]])}

\* Team.objects.all(), Player.objects.all(), Game.objects.all()
Team_objects_all == OrderBy(teams, Rows(teams), TeamOrdering)

Player_objects_all == OrderBy(players, Rows(players), PlayerOrdering)

Game_objects_all == OrderBy(games, Rows(games), GameOrdering)

(***************************************************************************)
(* Formation.formation_str:                                                *)
(*   '-'.join([str(x.players.count())                                      *)
(*             for x in self.formationline_set.all()][1:])                 *)
(***************************************************************************)
Digits == <<"0", "1", "2", "3", "4", "5", "6", "7", "8", "9">>

RECURSIVE str(_)
\* str() of a non-negative int: its decimal digits.
str(n) == IF n < 10 THEN <<Digits[n + 1]>>
          ELSE str(n \div 10) \o <<Digits[(n % 10) + 1]>>

RECURSIVE join(_, _)
\* sep.join(list)
join(sep, list) ==
    IF list = <<>> THEN <<>>
    ELSE IF Len(list) = 1 THEN list[1]
    ELSE list[1] \o sep \o join(sep, Tail(list))

\* A slip: the whole list, the first line included.
WholeList(list) == list

\* list[1:]
FromSecond(list) == IF list = <<>> THEN <<>> ELSE Tail(list)

\* self.formationline_set.all(): the lines of formation f in the default order.
formationline_set_all(f) ==
    OrderBy(formationlines,
            {i \in Rows(formationlines) : formationlines[i].formation = f},
            FormationLineOrdering)

\* x.players.count(): the FormationPlayer rows of line x.
players_count(x) == formationplayers[x]

\* formation_str, for one result `lines` of formationline_set.all()
formation_str(lines) ==
    join(<<"-">>, FromSecond([k \in 1..Len(lines) |-> str(players_count(lines[k]))]))

\* FormationLine(formation=f, sort_order=..).save() of a new line: the AutoField
\* gives it the next primary key.
InsertFormationLine(f, sort_order) ==
    LET i == Cardinality(Rows(formationlines)) + 1
    IN  /\ i \in LineIds
        /\ formationlines' =
              [formationlines EXCEPT ![i] = [formation |-> f, sort_order |-> sort_order]]
        /\ result' = "ok"
        /\ UNCHANGED <<now, entityVars, scoreVars, statsets, formationplayers,
                       migrationVars, nulls_largest>>

\* line.sort_order = ..; line.save()
UpdateFormationLine(i, sort_order) ==
    /\ formationlines[i] # NoRow
    /\ formationlines' = [formationlines EXCEPT ![i].sort_order = sort_order]
    /\ result' = "ok"
    /\ UNCHANGED <<now, entityVars, scoreVars, statsets, formationplayers,
                   migrationVars, nulls_largest>>

TotalFormationPlayers == LET RECURSIVE Sum(_)
                             Sum(ids) == IF ids = {} THEN 0
                                         ELSE LET i == CHOOSE j \in ids : TRUE
                                              IN  formationplayers[i] + Sum(ids \ {i})
                         IN  Sum(LineIds)

\* FormationPlayer(line=i, player=..).save() of a new row
InsertFormationPlayer(i) ==
    /\ formationlines[i] # NoRow
    /\ TotalFormationPlayers < MaxFormationPlayers
    /\ formationplayers' = [formationplayers EXCEPT ![i] = @ + 1]
    /\ result' = "ok"
    /\ UNCHANGED <<now, entityVars, scoreVars, statsets, formationlines,
                   migrationVars, nulls_largest>>

\* FormationPlayer.delete() of a row of line i
DeleteFormationPlayer(i) ==
    /\ formationplayers[i] > 0
    /\ formationplayers' = [formationplayers EXCEPT ![i] = @ - 1]
    /\ result' = "ok"
    /\ UNCHANGED <<now, entityVars, scoreVars, statsets, formationlines,
                   migrationVars, nulls_largest>>

(***************************************************************************)
(* Substitution and migration 0008.  A foreign-key column holds the        *)
(* primary key of a row of the table it targets; db.alter_column changes   *)
(* what the column targets and leaves the stored values as they are.  A    *)
(* backend that enforces foreign keys refuses the new constraint when a    *)
(* stored value is no primary key of the new target, and the step fails    *)
(* as a whole.                                                             *)
(***************************************************************************)
\* class Substitution as models.py declares it.
SubstitutionModel ==
    [out_player_id |-> "GamePlayer", in_player_id |-> "GamePlayer",
     team_id |-> "Team", minute |-> "IntegerField"]

\* The Substitution columns as migration 0008 freezes them
\* (models['mls_api.substitution']).
FrozenSubstitution ==
    [out_player_id |-> "GamePlayer", in_player_id |-> "GamePlayer",
     team_id |-> "Team", minute |-> "IntegerField"]

\* The columns before migration 0008: what backwards() leads to.
PriorSubstitution ==
    [out_player_id |-> "Player", in_player_id |-> "Player",
     team_id |-> "Team", minute |-> "IntegerField"]

\* The primary keys of the table a foreign key to `target` refers to.
Keys(target) ==
    CASE target = "Player"     -> Rows(players)
      [] target = "GamePlayer" -> Rows(gameplayers)
      [] target = "Team"       -> Rows(teams)

\* db.alter_column(u'mls_api_substitution', column, ForeignKey(to=target))
alter_column(schema, column, target) == [schema EXCEPT ![column] = target]

\* Whether the backend accepts a foreign key from `column` to `target`.
ConstraintAccepted(column, target) ==
    fk_enforced =>
        \A i \in Rows(substitutions) : substitutions[i][column] \in Keys(target)

\* A slip: only out_player is retargeted.
forwards_out_player_only ==
    /\ ~migrated
    /\ sub_schema' = alter_column(sub_schema, "out_player_id", "GamePlayer")
    /\ migrated' = TRUE
    /\ roundtrip' = FALSE
    /\ result' = "ok"
    /\ UNCHANGED <<now, entityVars, scoreVars, statsets, formationVars, substitutions,
                   fk_enforced, meant, nulls_largest>>

\* Migration.forwards
forwards ==
    /\ ~migrated
    /\ IF /\ ConstraintAccepted("out_player_id", "GamePlayer")
          /\ ConstraintAccepted("in_player_id", "GamePlayer")
       THEN /\ sub_schema' =
                  alter_column(alter_column(sub_schema, "out_player_id", "GamePlayer"),
                               "in_player_id", "GamePlayer")
            /\ migrated' = TRUE
            /\ roundtrip' = FALSE
            /\ result' = "ok"
       ELSE /\ result' = "IntegrityError"
            /\ UNCHANGED <<sub_schema, migrated, roundtrip>>
    /\ UNCHANGED <<now, entityVars, scoreVars, statsets, formationVars, substitutions,
                   fk_enforced, meant, nulls_largest>>

\* Migration.backwards
backwards ==
    /\ migrated
    /\ IF /\ ConstraintAccepted("out_player_id", "Player")
          /\ ConstraintAccepted("in_player_id", "Player")
       THEN /\ sub_schema' =
                  alter_column(alter_column(sub_schema, "out_player_id", "Player"),
                               "in_player_id", "Player")
            /\ migrated' = FALSE
            /\ roundtrip' = TRUE
            /\ result' = "ok"
       ELSE /\ result' = "IntegrityError"
            /\ UNCHANGED <<sub_schema, migrated, roundtrip>>
    /\ UNCHANGED <<now, entityVars, scoreVars, statsets, formationVars, substitutions,
                   fk_enforced, meant, nulls_largest>>

\* The Player a primary key of `target` stands for.
PlayerOf(target, key) ==
    IF target = "GamePlayer" THEN gameplayers[key].player ELSE key

\* Substitution(id=i, out_player=.., in_player=.., team=.., minute=..).save(), the
\* two players being rows of the model the columns target at the time.
SaveSubstitution(i, out_player, in_player, team, minute) ==
    /\ out_player \in Keys(sub_schema.out_player_id)
    /\ in_player \in Keys(sub_schema.in_player_id)
    /\ team \in Keys(sub_schema.team_id)
    /\ substitutions' =
          [substitutions EXCEPT ![i] = [out_player_id |-> out_player,
                                        in_player_id  |-> in_player,
                                        team_id       |-> team,
                                        minute        |-> minute]]
    /\ meant' = [meant EXCEPT ![i] =
                    [out_player |-> PlayerOf(sub_schema.out_player_id, out_player),
                     in_player  |-> PlayerOf(sub_schema.in_player_id, in_player)]]
    /\ result' = "ok"
    /\ UNCHANGED <<now, entityVars, scoreVars, statsets, formationVars, sub_schema,
                   migrated, fk_enforced, roundtrip, nulls_largest>>

(***************************************************************************)
(* StatSet: team = ForeignKey('Team'), game = ForeignKey('Game'); neither  *)
(* the model nor the frozen Meta declares unique_together.                 *)
(***************************************************************************)
\* StatSet(id=i, game=.., team=.., fouls=..).save()
SaveStatSet(i, game, team, fouls) ==
    /\ games[game] # NoRow /\ teams[team] # NoRow
    /\ statsets' = [statsets EXCEPT ![i] = [game |-> game, team |-> team, fouls |-> fouls]]
    /\ result' = "ok"
    /\ UNCHANGED <<now, entityVars, scoreVars, formationVars, migrationVars,
                   nulls_largest>>

(***************************************************************************)
(* Store contents the specifications start from.                           *)
(***************************************************************************)
NoRows(ids) == [i \in ids |-> NoRow]

\* Three teams, one player on each.
TeamFixture ==
    [i \in TeamIds |-> [name |-> 1, slug |-> i, created |-> 0, modified |-> 0]]

PlayerFixture ==
    [i \in PlayerIds |->
        [first_name |-> 1, last_name |-> 1, team |-> i, created |-> 0, modified |-> 0]]

\* GamePlayer i is Player (i % 3) + 1, on that player's team; its primary key
\* differs from the player's.
GamePlayerFixture ==
    [i \in GamePlayerIds |->
        [player |-> (i % 3) + 1, game |-> (i % 2) + 1, team |-> (i % 3) + 1]]

\* The parts of the store a specification leaves empty.
NoEntities ==
    /\ teams = NoRows(TeamIds)
    /\ competitions = NoRows(CompetitionIds)
    /\ players = NoRows(PlayerIds)

NoScores ==
    /\ games = NoRows(GameIds)
    /\ gameplayers = NoRows(GamePlayerIds)
    /\ goals = NoRows(GoalIds)

NoFormations ==
    /\ formationlines = NoRows(LineIds)
    /\ formationplayers = [i \in LineIds |-> 0]

\* No Substitution rows, migration 0008 applied.
NoSubstitutions ==
    /\ substitutions = NoRows(SubstitutionIds)
    /\ sub_schema = FrozenSubstitution
    /\ migrated = TRUE
    /\ fk_enforced = TRUE
    /\ meant = NoRows(SubstitutionIds)
    /\ roundtrip = FALSE

(***************************************************************************)
(* Scores: a game between any two of the three teams (or of a team against *)
(* itself), a second game of team 1 against team 2, and their goals.       *)
(***************************************************************************)
InitScore ==
    /\ now = 0
    /\ result = "ok"
    /\ nulls_largest = TRUE
    /\ teams = TeamFixture
    /\ competitions = NoRows(CompetitionIds)
    /\ players = PlayerFixture
    /\ games \in {gs \in [GameIds -> {r \in GameRows : r.start_time = NULL}] :
                    gs[2].home_team = 1 /\ gs[2].away_team = 2}
    /\ gameplayers = GamePlayerFixture
    /\ goals = NoRows(GoalIds)
    /\ statsets = NoRows(StatSetIds)
    /\ NoFormations
    /\ NoSubstitutions

NextScore ==
    \/ \E i \in GoalIds, g \in GameIds, p \in GamePlayerIds, own \in BOOLEAN :
          InsertGoal(i, g, p, own)
    \/ \E i \in Rows(goals), g \in GameIds :
          UpdateGoal(i, g, goals[i].player, goals[i].own_goal)
    \/ \E i \in Rows(goals), p \in GamePlayerIds :
          UpdateGoal(i, goals[i].game, p, goals[i].own_goal)
    \/ \E i \in Rows(goals), own \in BOOLEAN :
          UpdateGoal(i, goals[i].game, goals[i].player, own)
    \/ \E i \in GoalIds : DeleteGoal(i)

SpecScore == InitScore /\ [][NextScore]_vars

\* The team a goal's scorer plays for.
ScorerTeam(i) == gameplayers[goals[i].player].team

\* C1: for every Game g and every Team t, _retrieve_goal_count(t) is the number
\* of Goals of g that are not own goals and whose scorer's team is t, plus the
\* number of Goals of g that are own goals and whose scorer's team is not t;
\* home_score and away_score are that count for the home and the away team, and
\* the Goals of other Games are not counted.
C1_ScoreCount ==
    \A g \in Rows(games) :
        LET of_g == {i \in GoalIds : goals[i] # NoRow /\ goals[i].game = g}
            Credited(t) ==
                Cardinality({i \in of_g : goals[i].own_goal = FALSE /\ ScorerTeam(i) = t})
                + Cardinality({i \in of_g : goals[i].own_goal = TRUE /\ ScorerTeam(i) # t})
        IN  /\ \A t \in TeamIds : retrieve_goal_count(g, t) = Credited(t)
            /\ home_score(g) = Credited(games[g].home_team)
            /\ away_score(g) = Credited(games[g].away_team)

\* An own goal of the away side counts for the home team, beside a goal of
\* another game scored by a player of the home team.
C1_Witness ==
    \E g \in Rows(games) :
        /\ \E i \in goal_set(g) :
              goals[i].own_goal /\ ScorerTeam(i) # games[g].home_team
        /\ \E i \in Rows(goals) :
              /\ goals[i].game # g
              /\ ~goals[i].own_goal
              /\ ScorerTeam(i) = games[g].home_team
        /\ home_score(g) = 1

RECURSIVE Recount(_, _, _)
\* The goals among ids credited to team t in game g, counted one by one.
Recount(ids, g, t) ==
    IF ids = {} THEN 0
    ELSE LET i == CHOOSE j \in ids : TRUE
             one == IF /\ goals[i] # NoRow
                       /\ goals[i].game = g
                       /\ (goals[i].own_goal <=> ScorerTeam(i) # t)
                    THEN 1 ELSE 0
         IN  one + Recount(ids \ {i}, g, t)

\* C2: the score is never stored: mls_api_game has no home_score or away_score
\* column, and in every state reached by inserting, updating and deleting Goals
\* reading home_score / away_score gives the count over the current Goals.
C2_ScoreNotStored ==
    /\ "home_score" \notin GameColumns
    /\ "away_score" \notin GameColumns
    /\ \A g \in Rows(games) :
          /\ home_score(g) = Recount(GoalIds, g, games[g].home_team)
          /\ away_score(g) = Recount(GoalIds, g, games[g].away_team)

\* A goal was written and the score read afterwards is not the initial one.
C2_Witness ==
    /\ result = "ok"
    /\ \E g \in Rows(games) : home_score(g) = 1 /\ away_score(g) = 1
    /\ Cardinality(Rows(goals)) = MaxGoals

\* C10: for every Game whose home and away teams differ and whose Goals are all
\* scored by GamePlayers of the home or the away team, home_score + away_score
\* is the number of Goals of the Game.
C10_EveryGoalCredited ==
    \A g \in Rows(games) :
        (/\ games[g].home_team # games[g].away_team
         /\ \A i \in goal_set(g) :
               ScorerTeam(i) \in {games[g].home_team, games[g].away_team})
        => home_score(g) + away_score(g) = Cardinality(goal_set(g))

\* A game between two teams with an own goal and a regular goal, both credited.
C10_Witness ==
    \E g \in Rows(games) :
        /\ games[g].home_team # games[g].away_team
        /\ \A i \in goal_set(g) :
              ScorerTeam(i) \in {games[g].home_team, games[g].away_team}
        /\ \E i \in goal_set(g) : goals[i].own_goal
        /\ \E i \in goal_set(g) : ~goals[i].own_goal
        /\ home_score(g) + away_score(g) = 2

(***************************************************************************)
(* Formations: the lines of Formation 1 and their players, beside a        *)
(* Formation 2 that has one line of two players.                           *)
(***************************************************************************)
SortOrders == {0, 1}

InitFormation ==
    /\ now = 0
    /\ result = "ok"
    /\ nulls_largest = TRUE
    /\ teams = TeamFixture
    /\ competitions = NoRows(CompetitionIds)
    /\ players = PlayerFixture
    /\ games = NoRows(GameIds)
    /\ gameplayers = GamePlayerFixture
    /\ goals = NoRows(GoalIds)
    /\ statsets = NoRows(StatSetIds)
    /\ formationlines = [NoRows(LineIds) EXCEPT ![1] = [formation |-> 2, sort_order |-> 0]]
    /\ formationplayers = [i \in LineIds |-> IF i = 1 THEN 2 ELSE 0]
    /\ NoSubstitutions

NextFormation ==
    \/ \E so \in SortOrders : InsertFormationLine(1, so)
    \/ \E i \in LineIds \ {1}, so \in SortOrders : UpdateFormationLine(i, so)
    \/ \E i \in LineIds \ {1} : InsertFormationPlayer(i)
    \/ \E i \in LineIds \ {1} : DeleteFormationPlayer(i)

SpecFormation == InitFormation /\ [][NextFormation]_vars

RECURSIVE Split(_, _)
\* The pieces of a string between the occurrences of the character sep.
Split(s, sep) ==
    IF \A k \in 1..Len(s) : s[k] # sep THEN <<s>>
    ELSE LET k == CHOOSE j \in 1..Len(s) :
                     s[j] = sep /\ \A h \in 1..(j - 1) : s[h] # sep
         IN  <<SubSeq(s, 1, k - 1)>> \o Split(SubSeq(s, k + 1, Len(s)), sep)

RECURSIVE Number(_)
\* The number a non-empty string of decimal digits writes; -1 for any other string.
Number(s) ==
    IF s = <<>> \/ \E k \in 1..Len(s) : \A d \in 1..10 : Digits[d] # s[k] THEN -1
    ELSE LET last == (CHOOSE d \in 1..10 : Digits[d] = s[Len(s)]) - 1
         IN  IF Len(s) = 1 THEN last
             ELSE 10 * Number(SubSeq(s, 1, Len(s) - 1)) + last

\* C3: for every Formation, formation_str is the dash-joined sequence of the
\* player counts of its FormationLines taken in ascending sort_order, the first
\* line skipped; lines of sizes [1,4,3,3] give "4-3-3".
C3_FormationStr ==
    \A f \in FormationIds : \A lines \in formationline_set_all(f) :
        LET sizes == [k \in 1..Len(lines) |-> formationplayers[lines[k]]]
            text  == formation_str(lines)
        IN  /\ {lines[k] : k \in 1..Len(lines)}
                 = {i \in LineIds : formationlines[i] # NoRow
                                     /\ formationlines[i].formation = f}
            /\ \A j, k \in 1..Len(lines) :
                  j < k => formationlines[lines[j]].sort_order
                             <= formationlines[lines[k]].sort_order
            /\ Len(sizes) <= 1 => text = <<>>
            /\ Len(sizes) >= 2 =>
                  LET pieces == Split(text, "-")
                  IN  /\ Len(pieces) = Len(sizes) - 1
                      /\ \A k \in 1..Len(pieces) : Number(pieces[k]) = sizes[k + 1]
            /\ sizes = <<1, 4, 3, 3>> => text = <<"4", "-", "3", "-", "3">>

\* Formation 1 lists its lines with sizes [1,4,3,3], not in primary-key order.
C3_Witness ==
    \E lines \in formationline_set_all(1) :
        /\ [k \in 1..Len(lines) |-> formationplayers[lines[k]]] = <<1, 4, 3, 3>>
        /\ \E j, k \in 1..Len(lines) : j < k /\ lines[j] > lines[k]
        /\ formation_str(lines) = <<"4", "-", "3", "-", "3">>

(***************************************************************************)
(* Migration 0008 applied and reverted over a store that holds             *)
(* Substitution rows, on a backend that enforces foreign keys or not.      *)
(***************************************************************************)
Minutes == {46, 70}

InitMigration ==
    /\ now = 0
    /\ result = "ok"
    /\ nulls_largest = TRUE
    /\ teams = TeamFixture
    /\ competitions = NoRows(CompetitionIds)
    /\ players = PlayerFixture
    /\ games = NoRows(GameIds)
    /\ gameplayers = GamePlayerFixture
    /\ goals = NoRows(GoalIds)
    /\ statsets = NoRows(StatSetIds)
    /\ NoFormations
    /\ substitutions = NoRows(SubstitutionIds)
    /\ sub_schema = PriorSubstitution
    /\ migrated = FALSE
    /\ fk_enforced \in BOOLEAN
    /\ meant = NoRows(SubstitutionIds)
    /\ roundtrip = FALSE

NextMigration ==
    \/ forwards
    \/ backwards
    \/ \E i \in SubstitutionIds, o \in PlayerIds \cup GamePlayerIds,
          n \in PlayerIds \cup GamePlayerIds, m \in Minutes :
          SaveSubstitution(i, o, n, 1, m)

SpecMigration == InitMigration /\ [][NextMigration]_vars

\* C6: once the migration was applied forwards and then backwards, both columns
\* target Player again and no data is lost: every Substitution row, whether
\* written before the forward step or between the two steps, still refers to the
\* players it was written with.
C6_RoundTripLossless ==
    (roundtrip /\ ~migrated) =>
        /\ sub_schema.out_player_id = "Player"
        /\ sub_schema.in_player_id = "Player"
        /\ \A i \in Rows(substitutions) :
              /\ substitutions[i].out_player_id \in Rows(players)
              /\ substitutions[i].in_player_id \in Rows(players)
              /\ substitutions[i].out_player_id = meant[i].out_player
              /\ substitutions[i].in_player_id = meant[i].in_player

\* C9: the forward step retargets in_player and out_player from Player to
\* GamePlayer and changes nothing else; the columns it leaves are those of the
\* frozen snapshot and of the Substitution model; the backward step recovers the
\* Player targeting.
C9_ForwardsRetargets ==
    [][/\ (~migrated /\ migrated') =>
            /\ sub_schema.out_player_id = "Player"
            /\ sub_schema.in_player_id = "Player"
            /\ sub_schema'.out_player_id = "GamePlayer"
            /\ sub_schema'.in_player_id = "GamePlayer"
            /\ sub_schema'.team_id = sub_schema.team_id
            /\ sub_schema'.minute = sub_schema.minute
            /\ sub_schema' = FrozenSubstitution
            /\ sub_schema' = SubstitutionModel
            /\ substitutions' = substitutions
            /\ UNCHANGED <<entityVars, scoreVars, statsets, formationVars>>
       /\ (migrated /\ ~migrated') =>
            /\ sub_schema'.out_player_id = "Player"
            /\ sub_schema'.in_player_id = "Player"
            /\ sub_schema'.team_id = "Team"
            /\ sub_schema'.minute = sub_schema.minute
            /\ substitutions' = substitutions
       /\ (migrated' = migrated) => sub_schema' = sub_schema]_vars

\* The forward step was taken over a stored Substitution row.
C9_Witness ==
    /\ migrated
    /\ sub_schema = FrozenSubstitution
    /\ Rows(substitutions) # {}
    /\ result = "ok"

(***************************************************************************)
(* StatSets of two games between teams 1 and 2.                            *)
(***************************************************************************)
GameFixture == [i \in GameIds |-> GameRow(1, 2, NULL)]

Fouls == {0, 7}

InitStatSet ==
    /\ now = 0
    /\ result = "ok"
    /\ nulls_largest = TRUE
    /\ teams = TeamFixture
    /\ competitions = NoRows(CompetitionIds)
    /\ players = PlayerFixture
    /\ games = GameFixture
    /\ gameplayers = GamePlayerFixture
    /\ goals = NoRows(GoalIds)
    /\ statsets = NoRows(StatSetIds)
    /\ NoFormations
    /\ NoSubstitutions

NextStatSet ==
    \E i \in StatSetIds, g \in GameIds, t \in TeamIds, f \in Fouls : SaveStatSet(i, g, t, f)

SpecStatSet == InitStatSet /\ [][NextStatSet]_vars

\* C8: one StatSet per team per game: no two StatSet rows have the same
\* (game, team) pair.
C8_OneStatSetPerTeamPerGame ==
    \A i, j \in Rows(statsets) :
        (statsets[i].game = statsets[j].game /\ statsets[i].team = statsets[j].team)
        => i = j

(***************************************************************************)
(* Teams and Competitions saved with any name and slug.                    *)
(***************************************************************************)
InitSlug ==
    /\ now = 0
    /\ result = "ok"
    /\ nulls_largest = TRUE
    /\ NoEntities
    /\ NoScores
    /\ statsets = NoRows(StatSetIds)
    /\ NoFormations
    /\ NoSubstitutions

NextSlug ==
    \/ \E i \in TeamIds, n \in Names, s \in Slugs : SaveTeam(i, n, s)
    \/ \E i \in CompetitionIds, n \in Names, s \in Slugs : SaveCompetition(i, n, s)

SpecSlug == InitSlug /\ [][NextSlug]_vars

\* Another row of the table holds the slug.
SlugHeldByOther(table, i, s) ==
    \E j \in DOMAIN table : j # i /\ table[j] # NoRow /\ table[j].slug = s

\* C4: saving a Team (insert or update) with the slug of another Team fails
\* with a store-level error and leaves the Teams unchanged, and likewise for
\* Competition; no two Teams and no two Competitions ever share a slug.
C4_SlugUnique ==
    /\ [](\A i, j \in TeamIds :
            (teams[i] # NoRow /\ teams[j] # NoRow /\ i # j)
            => teams[i].slug # teams[j].slug)
    /\ [](\A i, j \in CompetitionIds :
            (competitions[i] # NoRow /\ competitions[j] # NoRow /\ i # j)
            => competitions[i].slug # competitions[j].slug)
    /\ [][\A i \in TeamIds, n \in Names, s \in Slugs :
            (SaveTeam(i, n, s) /\ SlugHeldByOther(teams, i, s))
            => (result' = "IntegrityError" /\ teams' = teams)]_vars
    /\ [][\A i \in CompetitionIds, n \in Names, s \in Slugs :
            (SaveCompetition(i, n, s) /\ SlugHeldByOther(competitions, i, s))
            => (result' = "IntegrityError" /\ competitions' = competitions)]_vars

\* A save was refused while two Teams and two Competitions were stored.
C4_Witness ==
    /\ result = "IntegrityError"
    /\ Cardinality(Rows(teams)) = 2
    /\ Cardinality(Rows(competitions)) = 2

(***************************************************************************)
(* Teams and a Competition saved again and again as the clock advances.    *)
(***************************************************************************)
InitStamp == InitSlug

NextStamp ==
    \/ Tick
    \/ \E i \in {1, 2}, n \in Names : SaveTeam(i, n, i)
    \/ SaveCompetition(1, 1, 1)

SpecStamp == InitStamp /\ [][NextStamp]_vars

\* What C5 says of the rows of one table over one step.
Stamped(table, after) ==
    \A i \in DOMAIN table :
        /\ (table[i] # NoRow /\ after[i] # NoRow) =>
              /\ after[i].created = table[i].created
              /\ after[i].modified >= table[i].modified
        /\ (table[i] = NoRow /\ after[i] # NoRow) =>
              /\ after[i].created = now
              /\ after[i].modified = now

InitList ==
    /\ now = 0
    /\ result = "ok"
    /\ nulls_largest \in BOOLEAN
    /\ NoEntities
    /\ NoScores
    /\ statsets = NoRows(StatSetIds)
    /\ NoFormations
    /\ NoSubstitutions

\* The Players and Games listed are those of Team 1.
NextList ==
    \/ \E i \in TeamIds, n \in Names : SaveTeam(i, n, i)
    \/ \E i \in {1, 2}, f \in Names, l \in Names : SavePlayer(i, f, l, 1)
    \/ \E i \in GameIds, st \in StartTimes : SaveGame(i, GameRow(1, 1, st))

SpecList == InitList /\ [][NextList]_vars

\* C7: Teams are listed by ascending name, Players by last_name and then
\* first_name, Games by descending start_time, whatever the order in which the
\* rows were saved.
C7_DefaultOrder ==
    /\ Team_objects_all # {}
    /\ \A s \in Team_objects_all :
          /\ {s[k] : k \in 1..Len(s)} = Rows(teams) /\ Len(s) = Cardinality(Rows(teams))
          /\ \A j, k \in 1..Len(s) : j < k => teams[s[j]].name <= teams[s[k]].name
    /\ Player_objects_all # {}
    /\ \A s \in Player_objects_all :
          /\ {s[k] : k \in 1..Len(s)} = Rows(players) /\ Len(s) = Cardinality(Rows(players))
          /\ \A j, k \in 1..Len(s) : j < k =>
                \/ players[s[j]].last_name < players[s[k]].last_name
                \/ /\ players[s[j]].last_name = players[s[k]].last_name
                   /\ players[s[j]].first_name <= players[s[k]].first_name
    /\ Game_objects_all # {}
    /\ \A s \in Game_objects_all :
          /\ {s[k] : k \in 1..Len(s)} = Rows(games) /\ Len(s) = Cardinality(Rows(games))
          /\ \A j, k \in 1..Len(s) :
                (j < k /\ games[s[j]].start_time # NULL /\ games[s[k]].start_time # NULL)
                => games[s[j]].start_time >= games[s[k]].start_time

\* Teams and Games whose primary-key order is the reverse of their listing order.
C7_Witness ==
    /\ teams[1] # NoRow /\ teams[2] # NoRow /\ teams[1].name > teams[2].name
    /\ games[1] # NoRow /\ games[2] # NoRow
    /\ games[1].start_time = 1 /\ games[2].start_time = 2
    /\ <<2, 1>> \in Team_objects_all
    /\ <<2, 1>> \in Game_objects_all

=============================================================================
